---------------------------- MODULE Spec2Model ----------------------------
(***************************************************************************)
(* A model of script.js: the three IntersectionObserver-driven one-shot    *)
(* activations (animated counters, scroll reveal, lazy loading), the       *)
(* dark-mode toggle, and the widgets: mobile menu, FAQ accordion,          *)
(* portfolio filter, anchor links, newsletter form and tooltips.           *)
(*                                                                         *)
(* The platform is modelled as the W3C algorithms the script runs on:      *)
(*  - "update the rendering" compares every observed target's intersection *)
(*    with the one last recorded and appends an entry to its observer's    *)
(*    queue when it changed (always, the first time after observe());      *)
(*  - a separately queued task hands every observer its queued entries, in *)
(*    one batch, to its callback;                                          *)
(*  - requestAnimationFrame callbacks all run at the next frame;           *)
(*  - setTimeout callbacks run when their delay has elapsed, in the order  *)
(*    of their deadlines.                                                  *)
(* Numbers are IEEE-754 doubles: the counter arithmetic is carried out on  *)
(* 53-bit significands, rounding to nearest, ties to even.                 *)
(***************************************************************************)
EXTENDS Integers, Sequences, FiniteSets, TLC

\* ------------------------------------------------------------------------
\* Bounds of the model and constants of the program
\* ------------------------------------------------------------------------

\* The longest batch an observer's queue may hold before it is delivered.
MaxQueue == 3

\* The most timers that are pending when the newsletter form or the tooltip
\* sets one more
MaxTimers == 3

\* The most timers that are pending after a click on a filter button
MaxFilterTimers == 2

\* The time, in ms, that passes at once while timers with longer delays wait
PauseMs == 1000

\* const duration = 2000 (line 38) and the 16 ms of "duration / 16" (line 39)
Duration == 2000
FrameMs == 16
\* index * 100 (line 210)
Stagger == 100

\* The delays of the widgets' timers, in ms: the fade-in of a filtered item
\* (line 114), the reset of the newsletter button (line 275), the tooltip's
\* show and hide (lines 364, 369)
FadeDelay == 10
ResetDelay == 3000
ShowDelay == 10
HideDelay == 300

\* duration / 16: 125, an exact quotient
Steps == Duration \div FrameMs

\* ------------------------------------------------------------------------
\* IEEE-754 double arithmetic, as far as updateCounter uses it.
\* A number is [nan, neg, hi, lo, p]: its magnitude is (hi * 2^30 + lo) * 2^-p.
\* Every number of one counter carries the same p, chosen so that the
\* increment's significand has exactly 53 bits; sums are then integers in
\* that unit and are rounded to 53 significant bits.
\* ------------------------------------------------------------------------
Limb == 2^30

NaN == [nan |-> TRUE, neg |-> FALSE, hi |-> 0, lo |-> 0, p |-> 0]
Zero == [nan |-> FALSE, neg |-> FALSE, hi |-> 0, lo |-> 0, p |-> 0]

IsZero(a) == ~a.nan /\ a.hi = 0 /\ a.lo = 0

Abs(n) == IF n < 0 THEN -n ELSE n

\* Scale an integer magnitude by powers of two until value / Steps lies in
\* [2^52, 2^53).
RECURSIVE Normalize(_, _, _)
Normalize(hi, lo, p) ==
    IF hi >= Steps * 2^22
    THEN [hi |-> hi, lo |-> lo, p |-> p]
    ELSE Normalize((2 * hi) + ((2 * lo) \div Limb), (2 * lo) % Limb, p + 1)

\* The double that holds the integer n exactly.
ToNumber(n) ==
    IF n = 0 THEN Zero
    ELSE LET m == Normalize(0, Abs(n), 0)
         IN  [nan |-> FALSE, neg |-> n < 0, hi |-> m.hi, lo |-> m.lo, p |-> m.p]

\* Magnitude + 1 unit, with carry.
Succ(hi, lo) ==
    IF lo + 1 = Limb THEN [hi |-> hi + 1, lo |-> 0] ELSE [hi |-> hi, lo |-> lo + 1]

\* a / d for a small positive integer d, correctly rounded.
Divide(a, d) ==
    IF a.nan THEN NaN
    ELSE IF IsZero(a) THEN Zero
    ELSE LET qh == a.hi \div d
             rh == a.hi % d
             x1 == (rh * 2^15) + (a.lo \div 2^15)
             q1 == x1 \div d
             r1 == x1 % d
             x2 == (r1 * 2^15) + (a.lo % 2^15)
             q2 == x2 \div d
             r2 == x2 % d
             ql == (q1 * 2^15) + q2
             up == (2 * r2 > d) \/ (2 * r2 = d /\ ql % 2 = 1)
             m  == IF up THEN Succ(qh, ql) ELSE [hi |-> qh, lo |-> ql]
         IN  [nan |-> FALSE, neg |-> a.neg, hi |-> m.hi, lo |-> m.lo, p |-> a.p]

\* The number of low bits a magnitude has beyond 53.
RECURSIVE ExtraBits(_, _)
ExtraBits(hi, s) == IF hi < 2^(23 + s) THEN s ELSE ExtraBits(hi, s + 1)

\* Round a magnitude to 53 significant bits, to nearest, ties to even.
Round53(hi, lo) ==
    LET s == ExtraBits(hi, 0)
    IN  IF s = 0 THEN [hi |-> hi, lo |-> lo]
        ELSE LET r    == lo % 2^s
                 odd  == (lo \div 2^s) % 2 = 1
                 up   == (2 * r > 2^s) \/ (2 * r = 2^s /\ odd)
                 low  == lo - r
             IN  IF ~up THEN [hi |-> hi, lo |-> low]
                 ELSE IF low + 2^s >= Limb
                      THEN [hi |-> hi + 1, lo |-> low + 2^s - Limb]
                      ELSE [hi |-> hi, lo |-> low + 2^s]

\* a + b for two numbers of the same sign and unit (current += increment).
Plus(a, b) ==
    IF a.nan \/ b.nan THEN NaN
    ELSE IF IsZero(a) THEN b
    ELSE IF IsZero(b) THEN a
    ELSE LET l == a.lo + b.lo
             h == a.hi + b.hi + (l \div Limb)
             m == Round53(h, l % Limb)
         IN  [nan |-> FALSE, neg |-> a.neg, hi |-> m.hi, lo |-> m.lo, p |-> a.p]

MagLess(a, b) == a.hi < b.hi \/ (a.hi = b.hi /\ a.lo < b.lo)

\* a < b; false when either is NaN.
Less(a, b) ==
    /\ ~a.nan /\ ~b.nan
    /\ \/ ~a.neg /\ ~b.neg /\ MagLess(a, b)
       \/ a.neg /\ b.neg /\ MagLess(b, a)
       \/ a.neg /\ ~b.neg

\* The integer part of a magnitude.
Trunc(a) ==
    IF a.p >= 30 THEN a.hi \div 2^(a.p - 30)
    ELSE (a.hi * 2^(30 - a.p)) + (a.lo \div 2^(a.p))

\* Is the magnitude an integer?
Integral(a) ==
    IF a.p >= 30 THEN a.lo = 0 /\ a.hi % 2^(a.p - 30) = 0
    ELSE a.lo % 2^(a.p) = 0

\* Math.floor of a number that is not NaN, as an integer.
Floor(a) ==
    IF ~a.neg THEN Trunc(a)
    ELSE IF Integral(a) THEN -Trunc(a) ELSE -Trunc(a) - 1

\* ------------------------------------------------------------------------
\* Strings and attributes.  A string is a sequence of characters; an
\* attribute is [present, chars]; getAttribute of an absent one is null.
\* ------------------------------------------------------------------------
Digits == <<"0", "1", "2", "3", "4", "5", "6", "7", "8", "9">>

IsDigit(ch) == \E i \in 1..10 : Digits[i] = ch

DigitValue(ch) == (CHOOSE i \in 1..10 : Digits[i] = ch) - 1

Absent == [present |-> FALSE, chars |-> <<>>]
Attr(chars) == [present |-> TRUE, chars |-> chars]

\* ToString of what getAttribute returns: the value, or "null".
AttrToString(a) == IF a.present THEN a.chars ELSE <<"n", "u", "l", "l">>

RECURSIVE SkipSpace(_)
SkipSpace(s) == IF s # <<>> /\ Head(s) = " " THEN SkipSpace(Tail(s)) ELSE s

\* The value of the longest prefix of decimal digits, continuing from acc.
RECURSIVE DigitsValue(_, _)
DigitsValue(s, acc) ==
    IF s # <<>> /\ IsDigit(Head(s))
    THEN DigitsValue(Tail(s), (10 * acc) + DigitValue(Head(s)))
    ELSE acc

\* The integer parseInt reads: leading white space, a sign, decimal digits;
\* none when no digit follows.  (No input of the model starts with 0x.)
ParsedInteger(a) ==
    LET s    == SkipSpace(AttrToString(a))
        neg  == s # <<>> /\ Head(s) = "-"
        body == IF s # <<>> /\ Head(s) \in {"-", "+"} THEN Tail(s) ELSE s
    IN  IF body = <<>> \/ ~IsDigit(Head(body)) THEN [none |-> TRUE, val |-> 0]
        ELSE [none |-> FALSE,
              val |-> IF neg THEN -DigitsValue(body, 0) ELSE DigitsValue(body, 0)]

\* parseInt(string): the number read, or NaN
ParseInt(a) ==
    IF ParsedInteger(a).none THEN NaN ELSE ToNumber(ParsedInteger(a).val)

\* What textContent shows: the page's own text, or the string of a number.
HtmlText == [kind |-> "html", val |-> 0]
NumberText(n) == [kind |-> "number", val |-> n]
NaNText == [kind |-> "NaN", val |-> 0]

\* String(x) of a number that is NaN or an integer.
NumberToText(a) == IF a.nan THEN NaNText ELSE NumberText(Floor(a))

\* ------------------------------------------------------------------------
\* The document
\* ------------------------------------------------------------------------
Counters == {"c1", "c2"}
Reveals == {"r1", "r2", "r3"}
Lazies == {"l1", "l2"}
Watched == Counters \cup Reveals \cup Lazies

\* Document order of the watched elements (querySelectorAll, observe()).
DocOrder == <<"c1", "c2", "r1", "r2", "r3", "l1", "l2">>

\* The elements of line 200, in document order
IsReveal(e) == e \in Reveals
RevealOrder == SelectSeq(DocOrder, IsReveal)

\* One observer per counter (line 53), one for all reveal elements (line
\* 204), one for all lazy elements (line 382).
Observers == Counters \cup {"reveal", "lazy"}
ObserverOf(e) ==
    IF e \in Counters THEN e ELSE IF e \in Reveals THEN "reveal" ELSE "lazy"

\* data-target values of the pages modelled
DataTargets ==
    { Absent, Attr(<<>>), Attr(<<"a", "b", "c">>), Attr(<<"0">>),
      Attr(<<"-", "5">>), Attr(<<"9">>), Attr(<<"1", "2", "6">>),
      Attr(<<" ", "1", "2", "p", "x">>), Attr(<<"1", "2", "8", "0">>) }

\* Those of them that are missing, unparsable, zero or negative
QuietTargets ==
    { Absent, Attr(<<>>), Attr(<<"a", "b", "c">>), Attr(<<"0">>), Attr(<<"-", "5">>) }

\* data-lazy values of the pages modelled: a file name, or nothing
DataLazies == { Attr(<<"a">>), Attr(<<"b">>), Attr(<<>>) }

\* What localStorage may hold under darkMode when the page loads
StoredPreferences ==
    { Absent, Attr(<<"t", "r", "u", "e">>), Attr(<<"f", "a", "l", "s", "e">>) }

VARIABLES
    page,        \* the watched elements the document holds
    visible,     \* visible[e]: e intersects the viewport beyond its threshold
    observed,    \* the observation targets of all observers
    previous,    \* previous[e]: the intersection last recorded for e
    queue,       \* queue[o]: the entries queued for observer o
    dataTarget,  \* dataTarget[c]: the data-target attribute
    target,      \* target[c], increment[c], current[c]: the closure of line 37
    increment,
    current,
    text,        \* text[c]: counter.textContent
    raf,         \* raf[c]: requested animation frames of updateCounter
    opacity,     \* opacity[r], transform[r]: the inline style of a reveal element
    transform,
    timers,      \* the pending setTimeout callbacks, oldest first
    src,         \* src[l], dataLazy[l]: the attributes of a lazy element
    dataLazy,
    toggle,      \* the document has an element with id darkModeToggle
    bodyDark,    \* document.body has the class dark-mode
    stored,      \* localStorage's value for darkMode
    reported,    \* reported[e]: an intersecting entry for e has been delivered
    starts,      \* starts[e]: how often e's activation was started
    calls,       \* calls[c]: how often updateCounter has run
    effect,      \* effect[r]: the reveal effect last applied to r
    batches,     \* how many reveal callbacks have set a timer
    clicks,      \* the dark-mode state before each of the last two clicks
    menuActive,  \* .nav-menu has the class active
    hamburger,   \* the inline transform of .hamburger
    faqActive,   \* the .faq-item elements that have the class active
    filterActive,     \* the .filter-btn elements that have the class active
    display,          \* display[r]: the inline display of a reveal element
    anchor,           \* what the last click on an in-page anchor did
    buttonText,       \* the newsletter submit button's textContent
    buttonBackground, \* its inline background
    email,            \* the value of the newsletter email input
    pointerOver,      \* the pointer is over the element with data-tooltip
    attached,         \* its tooltip is a child of document.body
    tipOpacity,       \* the tooltip's inline opacity
    event        \* the last event a widget listener handled

platformVars == <<page, visible, observed, previous, queue>>
counterVars == <<dataTarget, target, increment, current, text, raf, calls>>
revealVars == <<opacity, transform, timers, effect, batches>>
lazyVars == <<src, dataLazy>>
darkVars == <<toggle, bodyDark, stored, clicks>>
ghostVars == <<reported, starts>>
menuVars == <<menuActive, hamburger>>
filterVars == <<filterActive, display>>
newsletterVars == <<buttonText, buttonBackground, email>>
tooltipVars == <<pointerOver, attached, tipOpacity>>
widgetVars == <<menuVars, faqActive, filterVars, anchor, newsletterVars, tooltipVars, event>>
vars == <<platformVars, counterVars, revealVars, lazyVars, darkVars, ghostVars, widgetVars>>

\* ------------------------------------------------------------------------
\* The platform: scrolling, intersection observers, animation frames
\* ------------------------------------------------------------------------
Entry(e, on) == [target |-> e, isIntersecting |-> on]

EmptyQueues == [o \in Observers |-> <<>>]

\* The user scrolls (or the layout moves): one element of the document
\* crosses its observer's threshold, inwards or outwards.
Scroll(e) ==
    /\ e \in page
    /\ visible' = [visible EXCEPT ![e] = ~visible[e]]
    /\ UNCHANGED <<page, observed, previous, queue>>

\* The intersection of an observed target differs from the one recorded for
\* it (nothing is recorded before the first update after observe()).
Crossed(e) ==
    /\ e \in observed
    /\ \/ previous[e] = "none"
       \/ (previous[e] = "yes") # visible[e]

\* The entries one update appends to the queue of observer o, a target
\* after the targets observed before it.
RECURSIVE NewEntries(_, _)
NewEntries(o, order) ==
    IF order = <<>> THEN <<>>
    ELSE LET e == Head(order)
         IN  IF ObserverOf(e) = o /\ Crossed(e)
             THEN <<Entry(e, visible[e])>> \o NewEntries(o, Tail(order))
             ELSE NewEntries(o, Tail(order))

\* "Update the rendering": run the update intersection observations steps.
UpdateTheRendering ==
    /\ \E e \in Watched : Crossed(e)
    /\ \A o \in Observers : Len(queue[o]) + Len(NewEntries(o, DocOrder)) <= MaxQueue
    /\ queue' = [o \in Observers |-> queue[o] \o NewEntries(o, DocOrder)]
    /\ previous' = [e \in Watched |->
                      IF e \in observed
                      THEN (IF visible[e] THEN "yes" ELSE "no")
                      ELSE previous[e]]
    /\ UNCHANGED <<page, visible, observed>>

\* ------------------------------------------------------------------------
\* Animated counters (lines 33-64)
\* ------------------------------------------------------------------------

\* What one counter's callbacks read and write.
CounterState(c) ==
    [current |-> current[c], text |-> text[c], raf |-> raf[c],
     calls |-> calls[c], started |-> 0, unobserved |-> FALSE]

\* updateCounter without the snap to the target in its last call
UpdateCounterNoSnap(c, st) ==
    LET sum == Plus(st.current, increment[c])
    IN  IF Less(sum, target[c])
        THEN [st EXCEPT !.current = sum,
                        !.text = NumberToText(ToNumber(Floor(sum))),
                        !.raf = @ + 1,
                        !.calls = @ + 1]
        ELSE [st EXCEPT !.current = sum,
                        !.text = NumberToText(ToNumber(Floor(sum))),
                        !.calls = @ + 1]

\* updateCounter rounding the displayed value up instead of down
UpdateCounterCeil(c, st) ==
    LET sum == Plus(st.current, increment[c])
    IN  IF Less(sum, target[c])
        THEN [st EXCEPT !.current = sum,
                        !.text = NumberToText(ToNumber(Floor(sum) + 1)),
                        !.raf = @ + 1,
                        !.calls = @ + 1]
        ELSE [st EXCEPT !.current = sum,
                        !.text = NumberToText(target[c]),
                        !.calls = @ + 1]

\* updateCounter (lines 42-50)
UpdateCounter(c, st) ==
    LET sum == Plus(st.current, increment[c])
    IN  IF Less(sum, target[c])
        THEN [st EXCEPT !.current = sum,
                        !.text = NumberToText(ToNumber(Floor(sum))),
                        !.raf = @ + 1,
                        !.calls = @ + 1]
        ELSE [st EXCEPT !.current = sum,
                        !.text = NumberToText(target[c]),
                        !.calls = @ + 1]

\* The counter callback without its unobserve
CounterEntryStillObserved(c, st, entry) ==
    IF entry.isIntersecting
    THEN [UpdateCounter(c, st) EXCEPT !.started = @ + 1]
    ELSE st

\* The body of the observer callback for one entry (lines 55-58)
CounterEntry(c, st, entry) ==
    IF entry.isIntersecting
    THEN [UpdateCounter(c, st) EXCEPT !.started = @ + 1, !.unobserved = TRUE]
    ELSE st

\* entries.forEach (line 54)
RECURSIVE CounterCallback(_, _, _)
CounterCallback(c, st, entries) ==
    IF entries = <<>> THEN st
    ELSE CounterCallback(c, CounterEntry(c, st, Head(entries)), Tail(entries))

\* One animation frame runs the n callbacks requested for it; those they
\* request are for the frame after.
RECURSIVE RunFrame(_, _, _)
RunFrame(c, st, n) ==
    IF n = 0 THEN st ELSE RunFrame(c, UpdateCounter(c, st), n - 1)

AfterFrame(c) == RunFrame(c, [CounterState(c) EXCEPT !.raf = 0], raf[c])

AnimationFrame ==
    /\ \E c \in Counters : raf[c] > 0
    /\ current' = [c \in Counters |-> AfterFrame(c).current]
    /\ text' = [c \in Counters |-> AfterFrame(c).text]
    /\ raf' = [c \in Counters |-> AfterFrame(c).raf]
    /\ calls' = [c \in Counters |-> AfterFrame(c).calls]
    /\ UNCHANGED <<platformVars, dataTarget, target, increment, ghostVars>>
    /\ UNCHANGED <<revealVars, lazyVars, darkVars, widgetVars>>

\* ------------------------------------------------------------------------
\* Scroll reveal (lines 199-225)
\* ------------------------------------------------------------------------

\* A pending setTimeout callback of line 207: its element, the time left
\* and the time waited, and the batch and batch position it was set for.
Timer(e, delay, index, batch) ==
    [callback |-> "reveal", target |-> e, left |-> delay, waited |-> 0,
     index |-> index, batch |-> batch]

\* The same delay for every entry of a batch
RevealDelayFlat(index) == Stagger

\* index * 100 (line 210)
RevealDelay(index) == index * Stagger

\* The reveal callback making every watched element visible at once
RevealEntryAll(st, entry, index) ==
    IF entry.isIntersecting
    THEN [st EXCEPT
            !.timers = @ \o [i \in 1..Len(RevealOrder) |->
                               Timer(RevealOrder[i], RevealDelay(index), index, batches + 1)],
            !.unobserved = @ \cup {entry.target},
            !.started = [@ EXCEPT ![entry.target] = @ + 1]]
    ELSE st

\* A reveal callback whose unobserve takes the pending effect with it
RevealEntryCancelled(st, entry, index) ==
    IF entry.isIntersecting
    THEN [st EXCEPT
            !.unobserved = @ \cup {entry.target},
            !.started = [@ EXCEPT ![entry.target] = @ + 1]]
    ELSE st

\* The body of the observer callback for the entry at position index of its
\* batch (lines 206-212)
RevealEntry(st, entry, index) ==
    IF entry.isIntersecting
    THEN [st EXCEPT
            !.timers = Append(@, Timer(entry.target, RevealDelay(index), index, batches + 1)),
            !.unobserved = @ \cup {entry.target},
            !.started = [@ EXCEPT ![entry.target] = @ + 1]]
    ELSE st

\* entries.forEach((entry, index) => ...) (line 205), from position index on
RECURSIVE RevealCallback(_, _, _)
RevealCallback(st, entries, index) ==
    IF index >= Len(entries) THEN st
    ELSE RevealCallback(RevealEntry(st, entries[index + 1], index), entries, index + 1)

AfterRevealCallback ==
    RevealCallback([timers |-> timers, unobserved |-> {},
                    started |-> [r \in Reveals |-> 0]],
                   queue["reveal"], 0)

\* The timer that runs next: the oldest of those whose delay has elapsed.
Due(i) ==
    /\ i \in 1..Len(timers)
    /\ timers[i].left = 0
    /\ \A j \in 1..(i - 1) : timers[j].left # 0

Without(seq, i) == SubSeq(seq, 1, i - 1) \o SubSeq(seq, i + 1, Len(seq))

\* The setTimeout callback (lines 208-209)
RevealEffect ==
    \E i \in 1..Len(timers) :
        /\ Due(i)
        /\ timers[i].callback = "reveal"
        /\ opacity' = [opacity EXCEPT ![timers[i].target] = "1"]
        /\ transform' = [transform EXCEPT ![timers[i].target] = "translateY(0)"]
        /\ timers' = Without(timers, i)
        /\ effect' = [effect EXCEPT ![timers[i].target] =
                        [index |-> timers[i].index, at |-> timers[i].waited,
                         batch |-> timers[i].batch]]
        /\ UNCHANGED <<platformVars, counterVars, lazyVars, darkVars, ghostVars, widgetVars, batches>>

Min(S) == CHOOSE x \in S : \A y \in S : x <= y

\* Time passes, up to the next deadline; a callback whose delay has elapsed
\* runs before more time passes.
Tick ==
    /\ timers # <<>>
    /\ \A i \in 1..Len(timers) : timers[i].left > 0
    /\ LET d == Min({timers[i].left : i \in 1..Len(timers)})
       IN  timers' = [i \in 1..Len(timers) |->
                        [timers[i] EXCEPT !.left = @ - d, !.waited = @ + d]]
    /\ UNCHANGED <<platformVars, counterVars, lazyVars, darkVars, ghostVars, widgetVars>>
    /\ UNCHANGED <<opacity, transform, effect, batches>>

\* A second passes in which no timer comes due.
Pause ==
    /\ timers # <<>>
    /\ \A i \in 1..Len(timers) : timers[i].left > PauseMs
    /\ timers' = [i \in 1..Len(timers) |->
                     [timers[i] EXCEPT !.left = @ - PauseMs, !.waited = @ + PauseMs]]
    /\ UNCHANGED <<platformVars, counterVars, lazyVars, darkVars, ghostVars, widgetVars>>
    /\ UNCHANGED <<opacity, transform, effect, batches>>

\* ------------------------------------------------------------------------
\* Lazy loading (lines 379-395)
\* ------------------------------------------------------------------------

\* The lazy callback loading on every entry, intersecting or not
LazyEntryAlways(st, entry) ==
    LET element == entry.target
        value   == st.dataLazy[element]
    IN  [st EXCEPT
           !.src = [@ EXCEPT ![element] = Attr(AttrToString(value))],
           !.dataLazy = [@ EXCEPT ![element] = Absent],
           !.unobserved = @ \cup {element},
           !.started = [@ EXCEPT ![element] = @ + 1]]

\* The body of the observer callback for one entry (lines 384-390)
LazyEntry(st, entry) ==
    IF entry.isIntersecting
    THEN LET element == entry.target
             value   == st.dataLazy[element]
         IN  [st EXCEPT
                !.src = [@ EXCEPT ![element] = Attr(AttrToString(value))],
                !.dataLazy = [@ EXCEPT ![element] = Absent],
                !.unobserved = @ \cup {element},
                !.started = [@ EXCEPT ![element] = @ + 1]]
    ELSE st

\* entries.forEach (line 383)
RECURSIVE LazyCallback(_, _)
LazyCallback(st, entries) ==
    IF entries = <<>> THEN st
    ELSE LazyCallback(LazyEntry(st, Head(entries)), Tail(entries))

AfterLazyCallback ==
    LazyCallback([src |-> src, dataLazy |-> dataLazy, unobserved |-> {},
                  started |-> [l \in Lazies |-> 0]],
                 queue["lazy"])

\* ------------------------------------------------------------------------
\* Delivery of the queued entries
\* ------------------------------------------------------------------------
AfterCounterCallback(c) == CounterCallback(c, CounterState(c), queue[c])

\* The elements the callbacks of this delivery unobserve.
Unobserved ==
    {c \in Counters : AfterCounterCallback(c).unobserved}
        \cup AfterRevealCallback.unobserved \cup AfterLazyCallback.unobserved

\* How often the callbacks of this delivery start the activation of e.
Started(e) ==
    IF e \in Counters THEN AfterCounterCallback(e).started
    ELSE IF e \in Reveals THEN AfterRevealCallback.started[e]
    ELSE AfterLazyCallback.started[e]

\* This delivery hands e's observer an intersecting entry for e.
Reporting(e) ==
    \E i \in 1..Len(queue[ObserverOf(e)]) :
        queue[ObserverOf(e)][i] = Entry(e, TRUE)

\* The task "notify intersection observers": every observer with queued
\* entries has its callback invoked with them; its queue is emptied.
NotifyIntersectionObservers ==
    /\ \E o \in Observers : queue[o] # <<>>
    /\ queue' = EmptyQueues
    /\ current' = [c \in Counters |-> AfterCounterCallback(c).current]
    /\ text' = [c \in Counters |-> AfterCounterCallback(c).text]
    /\ raf' = [c \in Counters |-> AfterCounterCallback(c).raf]
    /\ calls' = [c \in Counters |-> AfterCounterCallback(c).calls]
    /\ timers' = AfterRevealCallback.timers
    /\ batches' = IF AfterRevealCallback.unobserved # {} THEN batches + 1 ELSE batches
    /\ src' = AfterLazyCallback.src
    /\ dataLazy' = AfterLazyCallback.dataLazy
    /\ observed' = observed \ Unobserved
    /\ starts' = [e \in Watched |-> starts[e] + Started(e)]
    /\ reported' = [e \in Watched |-> reported[e] \/ Reporting(e)]
    /\ UNCHANGED <<page, visible, previous, dataTarget, target, increment>>
    /\ UNCHANGED <<opacity, transform, effect, darkVars, widgetVars>>

\* ------------------------------------------------------------------------
\* Dark mode (lines 402-418)
\* ------------------------------------------------------------------------
TrueString == <<"t", "r", "u", "e">>
FalseString == <<"f", "a", "l", "s", "e">>

\* String(b) of a boolean, as setItem stores it
BooleanToString(b) == IF b THEN TrueString ELSE FalseString

\* localStorage.getItem('darkMode') === 'true' (line 406)
IsDarkMode(item) == item.present /\ item.chars = TrueString

\* A click that stores the state before the toggle
ToggledStale(dark) ==
    LET isDark == ~dark
    IN  [bodyDark |-> isDark, stored |-> Attr(BooleanToString(dark))]

\* What a click on the toggle leaves (lines 413-415)
Toggled(dark) ==
    LET isDark == ~dark
    IN  [bodyDark |-> isDark, stored |-> Attr(BooleanToString(isDark))]

LastTwo(seq) == IF Len(seq) > 2 THEN Tail(seq) ELSE seq

\* The click listener of the toggle (lines 412-416)
DarkModeClick ==
    /\ toggle
    /\ bodyDark' = Toggled(bodyDark).bodyDark
    /\ stored' = Toggled(bodyDark).stored
    /\ clicks' = LastTwo(Append(clicks, [bodyDark |-> bodyDark, stored |-> stored]))
    /\ UNCHANGED <<platformVars, counterVars, revealVars, lazyVars, ghostVars, widgetVars, toggle>>

\* ------------------------------------------------------------------------
\* The widgets: what the document holds for them
\* ------------------------------------------------------------------------
FaqItems == {"q1", "q2", "q3"}

\* The .filter-btn elements and their data-filter attributes
FilterButtons == {"b1", "b2", "b3"}
DataFilter == [b \in FilterButtons |->
                 IF b = "b1" THEN <<"a", "l", "l">>
                 ELSE IF b = "b2" THEN <<"w", "e", "b">> ELSE <<"a", "p", "p">>]

\* The reveal elements that are .portfolio-item elements on the portfolio
\* page (the selector of line 201 names that class), and their
\* data-category attributes
PortfolioItems == {"r1", "r2"}
DataCategory == [r \in Reveals |->
                   IF r = "r1" THEN <<"w", "e", "b">> ELSE <<"d", "e", "s", "i", "g", "n">>]

\* The href attributes of the anchors modelled, and the ids in the document
Hrefs == { <<>>, <<"#">>, <<"#", "t">>, <<"#", "x">> }
Ids == { <<"t">> }

\* The last event a listener of the page handled; turn tells two handlings
\* of the same event apart.
NoEvent == [kind |-> "none", on |-> "none", turn |-> 0]
Handled(kind, on) == [kind |-> kind, on |-> on, turn |-> 1 - event.turn]

\* A pending setTimeout callback of a widget, with what its closure holds
Timeout(callback, e, delay, data) ==
    [callback |-> callback, target |-> e, left |-> delay, waited |-> 0, data |-> data]

Pending(callback) == {i \in 1..Len(timers) : timers[i].callback = callback}

\* ------------------------------------------------------------------------
\* Mobile menu (lines 4-28)
\* ------------------------------------------------------------------------
MenuState == [menuActive |-> menuActive, hamburger |-> hamburger]

\* Where a click lands: in the toggle, in the nav menu, or elsewhere
ClickTargets == {"toggle", "menu", "outside"}

\* The listener of the toggle (lines 9-17)
ToggleListener(st) ==
    LET active == ~st.menuActive
    IN  [menuActive |-> active,
         hamburger |-> IF active THEN "rotate(45deg)" ELSE "rotate(0)"]

\* A document listener that closes the menu on every click
DocumentListenerAnywhere(st, where) ==
    [menuActive |-> FALSE, hamburger |-> "rotate(0)"]

\* The listener of the document (lines 20-26)
DocumentListener(st, where) ==
    IF where # "toggle" /\ where # "menu"
    THEN [menuActive |-> FALSE, hamburger |-> "rotate(0)"]
    ELSE st

\* A click is dispatched to its target and bubbles to the document: the
\* toggle's listener runs first if the click is in the toggle.
Clicked(st, where) ==
    DocumentListener(IF where = "toggle" THEN ToggleListener(st) ELSE st, where)

\* The menu after a click on an element outside the toggle and the menu
ClickedElsewhere ==
    /\ menuActive' = Clicked(MenuState, "outside").menuActive
    /\ hamburger' = Clicked(MenuState, "outside").hamburger

MenuClick(where) ==
    /\ menuActive' = Clicked(MenuState, where).menuActive
    /\ hamburger' = Clicked(MenuState, where).hamburger
    /\ event' = Handled("click", where)
    /\ UNCHANGED <<platformVars, counterVars, revealVars, lazyVars, darkVars, ghostVars>>
    /\ UNCHANGED <<faqActive, filterVars, anchor, newsletterVars, tooltipVars>>

\* ------------------------------------------------------------------------
\* FAQ accordion (lines 72-89)
\* ------------------------------------------------------------------------

\* A listener that toggles the item and leaves the others as they are
FaqToggledOnly(active, item) ==
    IF item \in active THEN active \ {item} ELSE active \cup {item}

\* The items that are open after the listener of item's question has run
\* (lines 76-87)
FaqToggled(active, item) ==
    LET isActive == item \in active
        closed   == active \ FaqItems
    IN  IF ~isActive THEN closed \cup {item} ELSE closed

FaqClick(item) ==
    /\ faqActive' = FaqToggled(faqActive, item)
    /\ ClickedElsewhere
    /\ event' = Handled("faq", item)
    /\ UNCHANGED <<platformVars, counterVars, revealVars, lazyVars, darkVars, ghostVars>>
    /\ UNCHANGED <<filterVars, anchor, newsletterVars, tooltipVars>>

\* ------------------------------------------------------------------------
\* Smooth scroll for anchor links (lines 156-175)
\* ------------------------------------------------------------------------

\* a[href^="#"] (line 156): the anchors that get the listener
HasAnchorListener(href) == href # <<>> /\ Head(href) = "#"

\* document.querySelector(href) for an id selector; <<>> stands for null
QuerySelector(href) ==
    IF href # <<>> /\ Head(href) = "#" /\ Tail(href) \in Ids THEN Tail(href) ELSE <<>>

\* What a click on an anchor did: whether its default action (the jump to
\* the fragment) was prevented, and the id of the element scrolled into view
Outcome(href, prevented, element) ==
    [clicked |-> TRUE, href |-> href, defaultPrevented |-> prevented, scrolledTo |-> element]

NotClicked == [clicked |-> FALSE, href |-> <<>>, defaultPrevented |-> FALSE, scrolledTo |-> <<>>]

\* The listener (lines 157-174)
AnchorListener(href) ==
    IF href = <<"#">> \/ href = <<>>
    THEN Outcome(href, TRUE, <<>>)
    ELSE LET element == QuerySelector(href)
         IN  IF element # <<>>
             THEN Outcome(href, TRUE, element)
             ELSE Outcome(href, FALSE, <<>>)

\* A click on an anchor, in the nav menu or elsewhere in the page
AnchorClick(href, where) ==
    /\ where \in {"menu", "outside"}
    /\ anchor' = IF HasAnchorListener(href) THEN AnchorListener(href)
                 ELSE Outcome(href, FALSE, <<>>)
    /\ menuActive' = Clicked(MenuState, where).menuActive
    /\ hamburger' = Clicked(MenuState, where).hamburger
    /\ event' = Handled("anchor", where)
    /\ UNCHANGED <<platformVars, counterVars, revealVars, lazyVars, darkVars, ghostVars>>
    /\ UNCHANGED <<faqActive, filterVars, newsletterVars, tooltipVars>>

\* ------------------------------------------------------------------------
\* Portfolio filter (lines 94-120)
\* ------------------------------------------------------------------------
All == <<"a", "l", "l">>

\* The element state the click listener works on
FilterState ==
    [display |-> display, opacity |-> opacity, timers |-> timers, visible |-> visible]

\* A listener that fades in only the items that were not displayed
FilterItemOnlyHidden(st, item, filter) ==
    IF filter = All \/ DataCategory[item] = filter
    THEN IF st.display[item] = "block"
         THEN [st EXCEPT !.opacity = [@ EXCEPT ![item] = "0"]]
         ELSE [st EXCEPT
                 !.display = [@ EXCEPT ![item] = "block"],
                 !.opacity = [@ EXCEPT ![item] = "0"],
                 !.timers = Append(@, Timeout("fade", item, FadeDelay, ""))]
    ELSE [st EXCEPT
            !.display = [@ EXCEPT ![item] = "none"],
            !.visible = [@ EXCEPT ![item] = FALSE]]

\* The body of portfolioItems.forEach for one item (lines 107-117); an item
\* that is not displayed has no box and intersects nothing.
FilterItem(st, item, filter) ==
    IF filter = All \/ DataCategory[item] = filter
    THEN [st EXCEPT
            !.display = [@ EXCEPT ![item] = "block"],
            !.opacity = [@ EXCEPT ![item] = "0"],
            !.timers = Append(@, Timeout("fade", item, FadeDelay, ""))]
    ELSE [st EXCEPT
            !.display = [@ EXCEPT ![item] = "none"],
            !.visible = [@ EXCEPT ![item] = FALSE]]

\* portfolioItems.forEach (line 106), in document order
RECURSIVE FilterItems(_, _, _)
FilterItems(st, items, filter) ==
    IF items = <<>> THEN st
    ELSE FilterItems(FilterItem(st, Head(items), filter), Tail(items), filter)

IsPortfolioItem(e) == e \in PortfolioItems /\ e \in page

\* The click listener of a filter button (lines 98-119)
FilterClick(button) ==
    LET after == FilterItems(FilterState, SelectSeq(DocOrder, IsPortfolioItem),
                             DataFilter[button])
    IN  /\ Len(after.timers) <= MaxFilterTimers
        /\ filterActive' = (filterActive \ FilterButtons) \cup {button}
        /\ display' = after.display
        /\ opacity' = after.opacity
        /\ timers' = after.timers
        /\ visible' = after.visible
        /\ ClickedElsewhere
        /\ event' = Handled("filter", button)
        /\ UNCHANGED <<page, observed, previous, queue>>
        /\ UNCHANGED <<counterVars, lazyVars, darkVars, ghostVars>>
        /\ UNCHANGED <<transform, effect, batches>>
        /\ UNCHANGED <<faqActive, anchor, newsletterVars, tooltipVars>>

\* The setTimeout callback of lines 111-114
FadeIn ==
    \E i \in 1..Len(timers) :
        /\ Due(i)
        /\ timers[i].callback = "fade"
        /\ opacity' = [opacity EXCEPT ![timers[i].target] = "1"]
        /\ timers' = Without(timers, i)
        /\ UNCHANGED <<platformVars, counterVars, lazyVars, darkVars, ghostVars, widgetVars>>
        /\ UNCHANGED <<transform, effect, batches>>

\* The user scrolls: an element that is displayed crosses its threshold.
ScrollDisplayed(e) ==
    /\ IF e \in Reveals THEN display[e] # "none" ELSE TRUE
    /\ Scroll(e)

\* ------------------------------------------------------------------------
\* Newsletter form (lines 255-277)
\* ------------------------------------------------------------------------
Subscribe == "Subscribe"
Subscribed == "Subscribed!"
Green == "#10b981"

NewsletterState ==
    [buttonText |-> buttonText, buttonBackground |-> buttonBackground,
     email |-> email, timers |-> timers]

\* The submit listener (lines 256-276): the callback keeps the text the
\* button has now
Submitted(st) ==
    LET originalText == st.buttonText
    IN  [st EXCEPT !.buttonText = Subscribed,
                   !.buttonBackground = Green,
                   !.timers = Append(@, Timeout("reset", "button", ResetDelay, originalText))]

NewsletterSubmit ==
    /\ Len(timers) < MaxTimers
    /\ buttonText' = Submitted(NewsletterState).buttonText
    /\ buttonBackground' = Submitted(NewsletterState).buttonBackground
    /\ timers' = Submitted(NewsletterState).timers
    /\ event' = Handled("submit", "newsletter")
    /\ UNCHANGED <<platformVars, counterVars, lazyVars, darkVars, ghostVars>>
    /\ UNCHANGED <<opacity, transform, effect, batches>>
    /\ UNCHANGED <<menuVars, faqActive, filterVars, anchor, email, tooltipVars>>

\* The user types an address into the email input.
TypeEmail ==
    /\ email = ""
    /\ email' = "a@b"
    /\ UNCHANGED <<platformVars, counterVars, revealVars, lazyVars, darkVars, ghostVars>>
    /\ UNCHANGED <<menuVars, faqActive, filterVars, anchor, buttonText, buttonBackground,
                   tooltipVars, event>>

\* The setTimeout callback of lines 271-275
NewsletterReset ==
    \E i \in 1..Len(timers) :
        /\ Due(i)
        /\ timers[i].callback = "reset"
        /\ buttonText' = timers[i].data
        /\ buttonBackground' = ""
        /\ email' = ""
        /\ timers' = Without(timers, i)
        /\ UNCHANGED <<platformVars, counterVars, lazyVars, darkVars, ghostVars>>
        /\ UNCHANGED <<opacity, transform, effect, batches>>
        /\ UNCHANGED <<menuVars, faqActive, filterVars, anchor, tooltipVars, event>>

\* ------------------------------------------------------------------------
\* Tooltips (lines 338-372)
\* ------------------------------------------------------------------------

\* The mouseenter listener (lines 359-365)
MouseEnter ==
    /\ ~pointerOver
    /\ Len(timers) < MaxTimers
    /\ pointerOver' = TRUE
    /\ attached' = TRUE
    /\ timers' = Append(timers, Timeout("show", "tooltip", ShowDelay, ""))
    /\ event' = Handled("mouseenter", "tooltip")
    /\ UNCHANGED <<platformVars, counterVars, lazyVars, darkVars, ghostVars>>
    /\ UNCHANGED <<opacity, transform, effect, batches>>
    /\ UNCHANGED <<menuVars, faqActive, filterVars, anchor, newsletterVars, tipOpacity>>

\* The mouseleave listener (lines 367-370)
MouseLeave ==
    /\ pointerOver
    /\ Len(timers) < MaxTimers
    /\ pointerOver' = FALSE
    /\ tipOpacity' = "0"
    /\ timers' = Append(timers, Timeout("remove", "tooltip", HideDelay, ""))
    /\ event' = Handled("mouseleave", "tooltip")
    /\ UNCHANGED <<platformVars, counterVars, lazyVars, darkVars, ghostVars>>
    /\ UNCHANGED <<opacity, transform, effect, batches>>
    /\ UNCHANGED <<menuVars, faqActive, filterVars, anchor, newsletterVars, attached>>

\* () => tooltip.style.opacity = '1' (line 364)
TooltipShow ==
    \E i \in 1..Len(timers) :
        /\ Due(i)
        /\ timers[i].callback = "show"
        /\ tipOpacity' = "1"
        /\ timers' = Without(timers, i)
        /\ UNCHANGED <<platformVars, counterVars, lazyVars, darkVars, ghostVars>>
        /\ UNCHANGED <<opacity, transform, effect, batches>>
        /\ UNCHANGED <<menuVars, faqActive, filterVars, anchor, newsletterVars,
                       pointerOver, attached, event>>

\* () => tooltip.remove() (line 369)
TooltipRemove ==
    \E i \in 1..Len(timers) :
        /\ Due(i)
        /\ timers[i].callback = "remove"
        /\ attached' = FALSE
        /\ timers' = Without(timers, i)
        /\ UNCHANGED <<platformVars, counterVars, lazyVars, darkVars, ghostVars>>
        /\ UNCHANGED <<opacity, transform, effect, batches>>
        /\ UNCHANGED <<menuVars, faqActive, filterVars, anchor, newsletterVars,
                       pointerOver, tipOpacity, event>>

\* ------------------------------------------------------------------------
\* The widgets when the script has run
\* ------------------------------------------------------------------------

\* The state a page's markup and the script's top level leave the widgets
\* in: the menu closed, at most one FAQ item open, one filter button active,
\* the newsletter form untouched, the tooltip created but not attached.
WidgetsLoaded(open, chosen) ==
    /\ menuActive = FALSE
    /\ hamburger = ""
    /\ faqActive = open
    /\ filterActive = chosen
    /\ display = [r \in Reveals |-> ""]
    /\ anchor = NotClicked
    /\ buttonText = Subscribe
    /\ buttonBackground = ""
    /\ email = ""
    /\ pointerOver = FALSE
    /\ attached = FALSE
    /\ tipOpacity = "0"
    /\ event = NoEvent

\* ------------------------------------------------------------------------
\* Page load
\* ------------------------------------------------------------------------

\* The script has run on a document that holds the watched elements P.
Loaded(P) ==
    /\ page = P
    /\ visible \in [Watched -> BOOLEAN]
    /\ \A e \in Watched \ P : ~visible[e]
    /\ observed = P
    /\ previous = [e \in Watched |-> "none"]
    /\ queue = EmptyQueues
    /\ dataTarget \in [Counters -> DataTargets]
    /\ \A c \in Counters \ P : dataTarget[c] = Absent
    /\ target = [c \in Counters |-> ParseInt(dataTarget[c])]
    /\ increment = [c \in Counters |-> Divide(target[c], Steps)]
    /\ current = [c \in Counters |-> Zero]
    /\ text = [c \in Counters |-> HtmlText]
    /\ raf = [c \in Counters |-> 0]
    /\ calls = [c \in Counters |-> 0]
    /\ opacity = [r \in Reveals |-> IF r \in P THEN "0" ELSE ""]
    /\ transform = [r \in Reveals |-> IF r \in P THEN "translateY(30px)" ELSE ""]
    /\ timers = <<>>
    /\ effect = [r \in Reveals |-> [index |-> -1, at |-> 0, batch |-> 0]]
    /\ batches = 0
    /\ src = [l \in Lazies |-> Absent]
    /\ dataLazy \in [Lazies -> DataLazies \cup {Absent}]
    /\ \A l \in Lazies : dataLazy[l] = Absent <=> l \notin P
    /\ starts = [e \in Watched |-> 0]
    /\ reported = [e \in Watched |-> FALSE]

\* initDarkMode up to the listener (lines 403-410), with or without a toggle
\* in the document.
DarkModeLoaded(hasToggle) ==
    /\ toggle = hasToggle
    /\ stored \in StoredPreferences
    /\ bodyDark = (hasToggle /\ IsDarkMode(stored))
    /\ clicks = <<>>

\* ------------------------------------------------------------------------
\* A page with one animated counter
\* ------------------------------------------------------------------------
InitCounter == Loaded({"c1"}) /\ DarkModeLoaded(FALSE) /\ stored = Absent /\ WidgetsLoaded({}, {})

NextCounter ==
    \/ \E e \in Watched : Scroll(e) /\ UNCHANGED <<counterVars, revealVars, lazyVars, darkVars, ghostVars, widgetVars>>
    \/ UpdateTheRendering /\ UNCHANGED <<counterVars, revealVars, lazyVars, darkVars, ghostVars, widgetVars>>
    \/ NotifyIntersectionObservers
    \/ AnimationFrame

SpecCounter == InitCounter /\ [][NextCounter]_vars

\* ------------------------------------------------------------------------
\* A page with three reveal elements
\* ------------------------------------------------------------------------
InitReveal == Loaded({"r1", "r2", "r3"}) /\ DarkModeLoaded(FALSE) /\ stored = Absent /\ WidgetsLoaded({}, {})

NextReveal ==
    \/ \E e \in Watched : Scroll(e) /\ UNCHANGED <<counterVars, revealVars, lazyVars, darkVars, ghostVars, widgetVars>>
    \/ UpdateTheRendering /\ UNCHANGED <<counterVars, revealVars, lazyVars, darkVars, ghostVars, widgetVars>>
    \/ NotifyIntersectionObservers
    \/ RevealEffect
    \/ Tick

SpecReveal == InitReveal /\ [][NextReveal]_vars

\* The same page with the guarantees of the event loop: a timer whose delay
\* has elapsed runs its callback, and time passes while timers wait.
SpecRevealFair == SpecReveal /\ WF_vars(RevealEffect) /\ WF_vars(Tick)

\* ------------------------------------------------------------------------
\* A page with two lazy elements and the dark-mode toggle
\* ------------------------------------------------------------------------
InitLazy ==
    /\ Loaded({"l1", "l2"})
    /\ \E t \in BOOLEAN : DarkModeLoaded(t)
    /\ WidgetsLoaded({}, {})

NextLazy ==
    \/ \E e \in Watched : Scroll(e) /\ UNCHANGED <<counterVars, revealVars, lazyVars, darkVars, ghostVars, widgetVars>>
    \/ UpdateTheRendering /\ UNCHANGED <<counterVars, revealVars, lazyVars, darkVars, ghostVars, widgetVars>>
    \/ NotifyIntersectionObservers
    \/ DarkModeClick

SpecLazy == InitLazy /\ [][NextLazy]_vars

\* ------------------------------------------------------------------------
\* A page with a counter and two reveal elements; the counter has no target
\* to count up to
\* ------------------------------------------------------------------------
InitBatch ==
    /\ Loaded({"c1", "r1", "r2"})
    /\ dataTarget["c1"] \in QuietTargets
    /\ DarkModeLoaded(FALSE) /\ stored = Absent /\ WidgetsLoaded({}, {})

NextBatch ==
    \/ \E e \in Watched : Scroll(e) /\ UNCHANGED <<counterVars, revealVars, lazyVars, darkVars, ghostVars, widgetVars>>
    \/ UpdateTheRendering /\ UNCHANGED <<counterVars, revealVars, lazyVars, darkVars, ghostVars, widgetVars>>
    \/ NotifyIntersectionObservers
    \/ RevealEffect
    \/ Tick

SpecBatch == InitBatch /\ [][NextBatch]_vars

\* ------------------------------------------------------------------------
\* A page with an element of every kind; its counter has no target to count
\* up to, so no animation frame is ever requested
\* ------------------------------------------------------------------------
Init ==
    /\ Loaded({"c1", "r1", "l1"})
    /\ dataTarget["c1"] \in QuietTargets
    /\ DarkModeLoaded(FALSE) /\ stored = Absent /\ WidgetsLoaded({}, {})

Next ==
    \/ \E e \in Watched : Scroll(e) /\ UNCHANGED <<counterVars, revealVars, lazyVars, darkVars, ghostVars, widgetVars>>
    \/ UpdateTheRendering /\ UNCHANGED <<counterVars, revealVars, lazyVars, darkVars, ghostVars, widgetVars>>
    \/ NotifyIntersectionObservers
    \/ RevealEffect
    \/ Tick

Spec == Init /\ [][Next]_vars

\* ------------------------------------------------------------------------
\* The portfolio page: two portfolio items, which are reveal elements too,
\* and the filter buttons, the first of them active in the markup
\* ------------------------------------------------------------------------
InitPortfolio ==
    /\ Loaded({"r1", "r2"})
    /\ DarkModeLoaded(FALSE) /\ stored = Absent
    /\ WidgetsLoaded({}, {"b1"})

NextPortfolio ==
    \/ \E e \in Watched : ScrollDisplayed(e) /\ UNCHANGED <<counterVars, revealVars, lazyVars, darkVars, ghostVars, widgetVars>>
    \/ UpdateTheRendering /\ UNCHANGED <<counterVars, revealVars, lazyVars, darkVars, ghostVars, widgetVars>>
    \/ NotifyIntersectionObservers
    \/ RevealEffect
    \/ Tick
    \/ \E b \in FilterButtons : FilterClick(b)
    \/ FadeIn

SpecPortfolio == InitPortfolio /\ [][NextPortfolio]_vars

\* ------------------------------------------------------------------------
\* A page with the mobile menu, an FAQ accordion and in-page anchors
\* ------------------------------------------------------------------------
InitNav ==
    /\ Loaded({})
    /\ DarkModeLoaded(FALSE) /\ stored = Absent
    /\ \E open \in SUBSET FaqItems : Cardinality(open) <= 1 /\ WidgetsLoaded(open, {})

NextNav ==
    \/ \E where \in ClickTargets : MenuClick(where)
    \/ \E item \in FaqItems : FaqClick(item)
    \/ \E href \in Hrefs, where \in ClickTargets : AnchorClick(href, where)

SpecNav == InitNav /\ [][NextNav]_vars

\* ------------------------------------------------------------------------
\* A page with the newsletter form
\* ------------------------------------------------------------------------
InitNewsletter ==
    /\ Loaded({})
    /\ DarkModeLoaded(FALSE) /\ stored = Absent
    /\ WidgetsLoaded({}, {})

NextNewsletter ==
    \/ NewsletterSubmit
    \/ TypeEmail
    \/ NewsletterReset
    \/ Pause
    \/ Tick

SpecNewsletter == InitNewsletter /\ [][NextNewsletter]_vars

\* ------------------------------------------------------------------------
\* A page with an element that has a tooltip
\* ------------------------------------------------------------------------
InitTooltip ==
    /\ Loaded({})
    /\ DarkModeLoaded(FALSE) /\ stored = Absent
    /\ WidgetsLoaded({}, {})

NextTooltip ==
    \/ MouseEnter
    \/ MouseLeave
    \/ TooltipShow
    \/ TooltipRemove
    \/ Tick

SpecTooltip == InitTooltip /\ [][NextTooltip]_vars

\* ------------------------------------------------------------------------
\* Properties
\* ------------------------------------------------------------------------
OnPage(S) == S \cap page

\* The integer V a counter's data-target parses to, when it does
Parses(c) == ~ParsedInteger(dataTarget[c]).none
V(c) == ParsedInteger(dataTarget[c]).val

\* The animation of c has been started and has requested no further frame.
Finished(c) == starts[c] > 0 /\ raf[c] = 0

\* C1: the activation of a watched element of any kind is started at most
\* once, whatever entries its observer is handed.
ActivatedAtMostOnce == \A e \in Watched : starts[e] <= 1

\* C2: an element for which an intersecting entry has been handled is no
\* longer a target of its observer.
ActivatedNotObserved ==
    \A e \in Watched : (reported[e] \/ starts[e] > 0) => e \notin observed

\* An element of each kind has been activated.
EveryKindActivated ==
    /\ \A e \in {"c1", "r1", "l1"} : reported[e] /\ starts[e] > 0 /\ e \notin observed
    /\ text["c1"] # HtmlText
    /\ src["l1"] # Absent

\* C3: once the animation of a counter whose data-target parses to the
\* integer V has finished, the text shown is V, and from then on the
\* animation stays finished and the text stays V.
FinalValueIsTarget ==
    /\ [](\A c \in OnPage(Counters) :
            Parses(c) /\ Finished(c) => text[c] = NumberText(V(c)))
    /\ [][\A c \in OnPage(Counters) :
            Parses(c) /\ Finished(c) => Finished(c)' /\ text'[c] = NumberText(V(c))]_vars

\* The counter to 126 has finished: its accumulator passed 126 in the 126th
\* call, and the text is 126.
FinishedBeyondTarget ==
    /\ V("c1") = 126 /\ Finished("c1") /\ calls["c1"] = 126
    /\ Less(target["c1"], current["c1"])
    /\ text["c1"] = NumberText(126)

\* C4: from its activation on, a counter with a positive integer target V
\* shows integers: integers from 0 to below V as long as its accumulator is
\* below V, and V from the frame on in which the accumulator reaches V (the
\* final frame); the integers shown never decrease.
DisplayedValuesClimbToTarget ==
    /\ [](\A c \in OnPage(Counters) :
            Parses(c) /\ V(c) > 0 /\ starts[c] > 0 =>
                /\ text[c].kind = "number"
                /\ Less(current[c], target[c]) =>
                      raf[c] > 0 /\ text[c].val >= 0 /\ text[c].val < V(c)
                /\ ~Less(current[c], target[c]) => text[c].val = V(c)
                /\ Finished(c) => text[c].val = V(c))
    /\ [][\A c \in OnPage(Counters) :
            Parses(c) /\ V(c) > 0 /\ text[c].kind = "number" =>
                text'[c].kind = "number" /\ text'[c].val >= text[c].val]_vars

\* The counter to 1280 shows 1269 in its last frame but one.
LastValueBelowTarget ==
    /\ V("c1") = 1280 /\ starts["c1"] = 1 /\ raf["c1"] = 1
    /\ calls["c1"] = Steps - 1
    /\ text["c1"] = NumberText(1269)

\* C5: a counter activated once runs updateCounter at most 125 times when
\* its target is a positive integer and exactly once when its target is
\* zero, negative or unparsable, and then requests no further frame.
AnimationWithinSteps ==
    \A c \in OnPage(Counters) :
        starts[c] = 1 =>
            IF Parses(c) /\ V(c) > 0
            THEN calls[c] <= Steps
            ELSE calls[c] = 1 /\ raf[c] = 0

\* C6: a counter whose data-target is missing or unparsable shows 0 once it
\* has been activated.
UnparsableTargetShowsZero ==
    \A c \in OnPage(Counters) :
        ~Parses(c) /\ starts[c] > 0 => text[c] = NumberText(0)

\* C7: a step changes what the script keeps of a watched element only when
\* it starts that element's own activation, applies that element's own
\* reveal effect or runs that element's own animation frame, and only once
\* that element has itself been reported intersecting; and a delivery
\* starts the activation of every element it reports intersecting, whatever
\* the configuration of the others.
ElementState(e) ==
    [observed |-> e \in observed,
     starts   |-> starts[e],
     shown    |-> IF e \in Counters THEN <<text[e], current[e], raf[e]>>
                  ELSE IF e \in Reveals THEN <<opacity[e], transform[e]>>
                  ELSE <<src[e], dataLazy[e]>>]

OwnStep(e) ==
    \/ Reporting(e) /\ queue' = EmptyQueues /\ starts'[e] > starts[e]
    \/ \E i \in 1..Len(timers) :
          Due(i) /\ timers[i].target = e /\ timers' = Without(timers, i)
    \/ e \in Counters /\ raf[e] > 0 /\ calls'[e] > calls[e]

Delivery == (\E o \in Observers : queue[o] # <<>>) /\ queue' = EmptyQueues

ActivationsIndependent ==
    [][/\ \A e \in Watched :
            ElementState(e)' # ElementState(e) => OwnStep(e) /\ reported'[e]
       /\ Delivery => \A e \in Watched :
                         Reporting(e) => starts'[e] > starts[e] /\ e \notin observed']_vars

\* Both reveal elements have been revealed though the counter of their page
\* has no data-target and shows NaN.
RevealedBesideMalformedCounter ==
    /\ dataTarget["c1"] = Absent /\ starts["c1"] > 0 /\ text["c1"] = NaNText
    /\ \A r \in {"r1", "r2"} : opacity[r] = "1" /\ effect[r].batch = 1

\* C8: the reveal effect of the entry at position i of a batch is applied
\* 100 ms * i after the callback that handled the batch.
StaggeredByBatchPosition ==
    /\ \A i \in 1..Len(timers) :
          timers[i].waited + timers[i].left = 100 * timers[i].index
    /\ \A r \in Reveals :
          effect[r].index >= 0 => effect[r].at = 100 * effect[r].index

\* Three elements reported visible in one batch, at positions 0, 1 and 2,
\* have been revealed 0, 100 and 200 ms after the callback.
ThreeRevealedInOrder ==
    /\ effect["r1"] = [index |-> 0, at |-> 0, batch |-> 1]
    /\ effect["r2"] = [index |-> 1, at |-> 100, batch |-> 1]
    /\ effect["r3"] = [index |-> 2, at |-> 200, batch |-> 1]

\* C9: the src of a lazy element is set only once an intersecting entry for
\* it has been delivered; until then it is as the page left it and
\* data-lazy is still there.
LazySourceOnlyOnceReported ==
    \A l \in OnPage(Lazies) :
        ~reported[l] => src[l] = Absent /\ dataLazy[l].present

\* One lazy element has been loaded; the other, reported only as not
\* intersecting, has not.
OneLoadedOneWaiting ==
    /\ reported["l1"] /\ src["l1"] = Attr(<<"a">>) /\ ~dataLazy["l1"].present
    /\ ~reported["l2"] /\ previous["l2"] = "no" /\ queue["lazy"] = <<>>
    /\ src["l2"] = Absent /\ dataLazy["l2"].present

\* C10 as claimed: two clicks on the toggle leave the body's class and the
\* stored preference as they were before the two clicks.
DoubleToggleRestoresAll ==
    Len(clicks) = 2 =>
        bodyDark = clicks[1].bodyDark /\ stored = clicks[1].stored

\* C10: two clicks on the toggle leave the body's class as it was before
\* them, and the stored preference as it was if one was stored; a
\* preference that was absent is then 'false', which reads as the same
\* setting.
DoubleToggleRestoresSetting ==
    Len(clicks) = 2 =>
        /\ bodyDark = clicks[1].bodyDark
        /\ IsDarkMode(stored) = IsDarkMode(clicks[1].stored)
        /\ clicks[1].stored.present => stored = clicks[1].stored
        /\ ~clicks[1].stored.present => stored = Attr(FalseString)

\* The toggle has been clicked twice on a page loaded without a stored
\* preference.
ToggledTwiceFromNothing ==
    /\ Len(clicks) = 2
    /\ clicks[1] = [bodyDark |-> FALSE, stored |-> Absent]
    /\ ~bodyDark /\ stored = Attr(FalseString)

\* C11: a reveal element on the page keeps the opacity 0 of its registration
\* until an intersecting entry for it has been delivered to the reveal
\* callback, whatever the widgets' listeners do in between.
RevealHiddenUntilReported ==
    \A r \in OnPage(Reveals) : ~reported[r] => opacity[r] = "0"

\* C12: a reveal element that has been reported intersecting gets opacity 1
\* and transform translateY(0) once its timer has run, and keeps them; the
\* timer stays pending while the element is no longer observed.
RevealedEventually ==
    /\ \A r \in Reveals :
          reported[r] ~> (opacity[r] = "1" /\ transform[r] = "translateY(0)")
    /\ [](\A r \in OnPage(Reveals) :
            reported[r] /\ opacity[r] # "1" =>
                /\ r \notin observed
                /\ \E i \in 1..Len(timers) : timers[i].target = r)
    /\ [][\A r \in OnPage(Reveals) :
            opacity[r] = "1" => opacity'[r] = "1" /\ transform'[r] = "translateY(0)"]_vars

\* All three elements are revealed and none of them is observed any more;
\* the last of them waited 200 ms for its timer.
AllRevealedUnobserved ==
    /\ \A r \in OnPage(Reveals) :
          reported[r] /\ r \notin observed
              /\ opacity[r] = "1" /\ transform[r] = "translateY(0)"
    /\ \E r \in OnPage(Reveals) : effect[r].at = 2 * Stagger

\* C13: a delivery that activates a lazy element leaves in its src the value
\* its data-lazy attribute held before the delivery, and leaves it without
\* the data-lazy attribute.
LazyCopiesThenRemoves ==
    [][\A l \in OnPage(Lazies) :
          starts'[l] > starts[l] => src'[l] = dataLazy[l] /\ dataLazy'[l] = Absent]_vars

\* C14: before the first click the body has the class dark-mode iff the
\* stored value is 'true'; after a click the stored value is the string of
\* the body having the class; only a click changes the stored value.
PreferenceReadAndKept ==
    /\ [](clicks = <<>> => (bodyDark <=> IsDarkMode(stored)))
    /\ [](clicks # <<>> => stored = Attr(BooleanToString(bodyDark)))
    /\ [][stored' # stored => clicks' # clicks]_vars

\* C15: a click on an anchor whose href is '#' or '' leaves the default
\* action in place; the default action is prevented only if the href selects
\* an element of the document, which is then scrolled into view.
AnchorDefaultKeptUnlessTargetExists ==
    anchor.clicked =>
        /\ (anchor.href = <<"#">> \/ anchor.href = <<>>) => ~anchor.defaultPrevented
        /\ anchor.defaultPrevented =>
              /\ QuerySelector(anchor.href) # <<>>
              /\ anchor.scrolledTo = QuerySelector(anchor.href)

\* C16: when the last pending reset timer of the newsletter form has run,
\* the submit button has its original text and background and the email
\* input is empty.
NewsletterRestored ==
    [][(Pending("reset") # {} /\ (Pending("reset") = {})') =>
          buttonText' = Subscribe /\ buttonBackground' = "" /\ email' = ""]_vars

\* C17: when no timer of the tooltip is pending, the tooltip is attached
\* with opacity 1 if the pointer is over the element, and detached if the
\* pointer is outside.
TooltipFollowsPointer ==
    (Pending("show") \cup Pending("remove") = {}) =>
        /\ pointerOver => attached /\ tipOpacity = "1"
        /\ ~pointerOver => ~attached

\* C18: after a click on a filter button, that button alone has the class
\* active, a portfolio item is displayed iff the button's data-filter is
\* 'all' or the item's data-category, and when no fade timer is pending
\* every displayed item has opacity 1.
FilterShowsLastChoice ==
    event.kind = "filter" =>
        /\ filterActive = {event.on}
        /\ \A item \in OnPage(PortfolioItems) :
              /\ display[item] \in {"block", "none"}
              /\ display[item] = "block" <=>
                    (DataFilter[event.on] = All \/ DataFilter[event.on] = DataCategory[item])
              /\ (Pending("fade") = {} /\ display[item] = "block") => opacity[item] = "1"

\* The filter 'web' was clicked while the fade timer of an earlier click was
\* pending: that timer has run since and left the web item with opacity 1,
\* the timer of the last click is still pending, and the design item is
\* hidden. No item was ever reported intersecting.
FilteredAgainBeforeFaded ==
    /\ event.kind = "filter" /\ event.on = "b2"
    /\ filterActive = {"b2"}
    /\ display["r1"] = "block" /\ opacity["r1"] = "1"
    /\ Cardinality({i \in Pending("fade") : timers[i].target = "r1"}) = 1
    /\ display["r2"] = "none"
    /\ ~reported["r1"] /\ ~reported["r2"]

\* C19: at most one FAQ item is open; a click on the question of a closed
\* item leaves exactly that item open, a click on the question of the open
\* item leaves none open.
AtMostOneFaqOpen ==
    /\ [](Cardinality(faqActive) <= 1)
    /\ [][(event' # event /\ event'.kind = "faq") =>
             faqActive' = IF event'.on \in faqActive THEN {} ELSE {event'.on}]_vars

\* The last click was on the first question, after at least one other
\* click, and the first item is the one open item.
FaqOpenedByClick ==
    /\ event.kind = "faq" /\ event.on = "q1"
    /\ event.turn = 0
    /\ faqActive = {"q1"}

\* C20: the hamburger is rotated 45deg iff the nav menu is active; a click
\* in the toggle flips the menu, a click in the menu leaves it as it is, a
\* click anywhere else leaves it closed.
HamburgerFollowsMenu ==
    /\ [](hamburger = "rotate(45deg)" <=> menuActive)
    /\ [][event' # event =>
             /\ (event'.kind = "click" /\ event'.on = "toggle") =>
                    menuActive' = ~menuActive
             /\ (event'.on = "menu") =>
                    menuActive' = menuActive /\ hamburger' = hamburger
             /\ (event'.on # "toggle" /\ event'.on # "menu") =>
                    ~menuActive' /\ hamburger' = "rotate(0)"]_vars

\* The menu was opened with the toggle and has stayed open through a click
\* inside it.
MenuOpenAfterClickInside ==
    /\ menuActive /\ hamburger = "rotate(45deg)"
    /\ event.kind = "click" /\ event.on = "menu"

=============================================================================
